---- MODULE Spec2Model ----
(***************************************************************************)
(* vite-plugin-compress: the post-build recompression pass of              *)
(* src/src/plugin.ts (closeBundle and its per-file tasks, the build-cycle  *)
(* hooks, the inline SVG transform) and the stand-alone SVG optimizer of   *)
(* src/src/lib/optimizeSvg.ts.                                             *)
(*                                                                         *)
(* Paths are records (directory, base name, extension); file content is a  *)
(* record (origin, byte size, the codecs applied so far, UTF-8 validity).  *)
(* The codec libraries are external: each one either fails or returns the  *)
(* content with its tag appended and a smaller size.                       *)
(* Init is the state after configResolved has run for a non-SSR build.     *)
(***************************************************************************)
EXTENDS Integers, Sequences, FiniteSets, TLC

VARIABLES
  opts,         \* the PluginOptions the plugin was created with
  bundle,       \* the files the host's build emits into outRoot
  fs,           \* the filesystem under outRoot: absolute path -> file
  clock,        \* wall clock in ms (Date.now(), file mtimes)
  mtimeCache,   \* module-level Map: absolute path -> Date.now() at processing
  hook,         \* postPlugin's this.closeBundle
  phase,        \* where the host is in its build cycle
  cycles,       \* one record per build cycle: its error, whether the pass ran
  run,          \* the current cycle's closeBundle call (its locals, its promise)
  tasks,        \* the per-file async tasks of that call, by crawled name
  codecs,       \* the lazily created codec instances of the plugin
  inl,          \* the prePlugin.transform call in flight, and its result
  lib           \* the lib/optimizeSvg call in flight, and its result

vars == <<opts, bundle, fs, clock, mtimeCache, hook, phase, cycles, run,
          tasks, codecs, inl, lib>>

---------------------------------------------------------------------------
(* Bounds of the model *)

\* build cycles (buildStart .. closeBundle) the host goes through
MaxCycles == 2
\* the wall clock stops advancing at this value
MaxClock == 2
\* options given a value other than their default
MaxOverrides == 2

---------------------------------------------------------------------------
(* Paths *)

outRoot == "/out"

Name(base, ext) == [base |-> base, ext |-> ext]

PngName  == Name("a", "png")
WebpName == Name("a", "webp")
JsName   == Name("b", "js")
SvgName  == Name("c", "svg")
HtmlName == Name("d", "html")
Svg2Name == Name("e", "svg")

Names == {PngName, WebpName, JsName, SvgName, HtmlName, Svg2Name}

\* path.posix.join(outRoot, name)
Join(root, name) == [dir |-> root, base |-> name.base, ext |-> name.ext]

\* path.relative(outRoot, filePath), for a path under outRoot
Relative(root, p) == [base |-> p.base, ext |-> p.ext]

Paths == {Join(outRoot, n) : n \in Names}

NoPath == [dir |-> "", base |-> "", ext |-> ""]

\* /\.png$/.test, /\.svg$/.test, /\.html$/.test
pngExt(p)  == p.ext = "png"
svgExt(p)  == p.ext = "svg"
htmlExt(p) == p.ext = "html"

\* filePath.replace(pngExt, '.webp')
ReplacePngExt(p) == IF pngExt(p) THEN [p EXCEPT !.ext = "webp"] ELSE p

---------------------------------------------------------------------------
(* Content and the external codecs *)

NoContent == [origin |-> "", size |-> 0, enc |-> <<>>, utf8 |-> TRUE]

Content(origin, size, utf8) ==
  [origin |-> origin, size |-> size, enc |-> <<>>, utf8 |-> utf8]

NoFile == [exists |-> FALSE, content |-> NoContent, mtime |-> 0, by |-> "none"]

File(content, mtime, by) ==
  [exists |-> TRUE, content |-> content, mtime |-> mtime, by |-> by]

\* content.toString('utf8'): every invalid byte becomes U+FFFD (3 bytes)
toStringUtf8(buf) ==
  IF buf.utf8 THEN buf
  ELSE [buf EXCEPT !.size = @ + 2, !.enc = Append(@, "U+FFFD"), !.utf8 = TRUE]

\* Buffer.from(string): the UTF-8 bytes of the string
BufferFrom(str) == str

\* what each codec returns when it succeeds
WebpOut(c)     == [c EXCEPT !.size = @ \div 2, !.enc = Append(@, "webp")]
PngquantOut(c) == [c EXCEPT !.size = (3 * @) \div 4, !.enc = Append(@, "pngquant")]
SvgoOut(c)     == [c EXCEPT !.size = (9 * @) \div 10, !.enc = Append(@, "svgo")]
MinifyOut(c)   == [c EXCEPT !.size = IF @ > 0 THEN @ - 1 ELSE 0,
                            !.enc = Append(@, "minify")]
BrotliOut(c)   == [c EXCEPT !.size = (2 * @) \div 5, !.enc = Append(@, "br")]

---------------------------------------------------------------------------
(* Options *)

\* a glob set compiled by globRegex, by the strings it matches:
\* rel = the relative names, abs = the names whose absolute path matches
Pat(rel, abs) == [given |-> TRUE, rel |-> rel, abs |-> abs]
NoPat == [given |-> FALSE, rel |-> {}, abs |-> {}]

NoThreshold == [given |-> FALSE, value |-> 0]
Threshold(n) == [given |-> TRUE, value |-> n]

Brotli(kind, exclude) == [kind |-> kind, exclude |-> exclude]

\* compress() with no options
DefaultOpts ==
  [verbose    |-> FALSE,
   brotli     |-> Brotli("undefined", NoPat),
   threshold  |-> NoThreshold,
   exclude    |-> NoPat,
   extensions |-> {},
   svgo       |-> TRUE,    \* opts.svgo !== false
   pngquant   |-> TRUE,    \* opts.pngquant !== false
   webp       |-> FALSE,   \* opts.webp is truthy
   minifyHtml |-> FALSE]   \* opts.minifyHtml is truthy

defaultExts == {"html", "js", "css", "svg", "json"}

DefaultThreshold == 1501

\* const threshold = opts.threshold ?? 1501
threshold == IF opts.threshold.given THEN opts.threshold.value ELSE DefaultThreshold

\* /^$/ matches no file name, /.+/ matches every one
RegexTest(pat, form, name) ==
  IF form = "rel" THEN name \in pat.rel ELSE name \in pat.abs

\* excludeRegex.test(name) / excludeRegex.test(filePath)
excludeRegex(form, name) ==
  IF opts.exclude.given THEN RegexTest(opts.exclude, form, name) ELSE FALSE

\* brotliExcludeRegex.test(name) / brotliExcludeRegex.test(filePath)
brotliExcludeRegex_Open(form, name) ==
  IF opts.brotli.kind = "object" /\ opts.brotli.exclude.given
    THEN RegexTest(opts.brotli.exclude, form, name)
    ELSE FALSE
brotliExcludeRegex(form, name) ==
  IF opts.brotli.kind = "object" /\ opts.brotli.exclude.given
    THEN RegexTest(opts.brotli.exclude, form, name)
    ELSE IF opts.brotli.kind # "false" THEN FALSE ELSE TRUE

\* extensionRegex.test(name)
extensionRegex(name) ==
  name.ext \in ({"png"} \cup defaultExts \cup opts.extensions)

---------------------------------------------------------------------------
(* The inputs: option sets and emitted bundles *)

\* the option values the model draws from, the default among them
OptionValues ==
  [verbose    : BOOLEAN,
   brotli     : {Brotli("undefined", NoPat), Brotli("false", NoPat),
                 Brotli("true", NoPat),
                 Brotli("object", NoPat), Brotli("object", Pat({JsName}, {})),
                 Brotli("object", Pat({}, {HtmlName}))},
   threshold  : {NoThreshold, Threshold(1500)},
   exclude    : {NoPat, Pat({JsName}, {}), Pat({}, {HtmlName}),
                 Pat({WebpName}, {}), Pat({PngName}, {})},
   extensions : {{}, {"webp"}},
   svgo       : BOOLEAN,
   pngquant   : BOOLEAN,
   webp       : BOOLEAN,
   minifyHtml : BOOLEAN]

\* the contents the build can emit for each file
FileChoices(n) ==
  IF n = PngName THEN {Content("a.png", 1000, FALSE)}
  ELSE IF n = WebpName THEN {Content("a.webp", 1501, FALSE)}
  ELSE IF n = JsName THEN {Content("b.js", s, TRUE) : s \in {1499, 1500, 1501}}
  ELSE IF n = SvgName THEN {Content("c.svg", 1501, TRUE), Content("c.svg", 1501, FALSE)}
  ELSE IF n = Svg2Name THEN {Content("e.svg", 1501, TRUE)}
  ELSE {Content("d.html", s, TRUE) : s \in {1500, 1501}} \cup
       {Content("d.html", 1500, FALSE)}

\* bundles of one file, with every content of that file
SingleBundles ==
  UNION {{[m \in {n} |-> c] : c \in FileChoices(n)} : n \in Names}

\* bundles of two files
PairBundles ==
  {(PngName :> Content("a.png", 1000, FALSE)) @@
     (WebpName :> Content("a.webp", 1501, FALSE)),
   (JsName :> Content("b.js", 1501, TRUE)) @@
     (SvgName :> Content("c.svg", 1501, TRUE)),
   (SvgName :> Content("c.svg", 1501, TRUE)) @@
     (Svg2Name :> Content("e.svg", 1501, TRUE))}

Bundles == SingleBundles \cup PairBundles

\* the files of a bundle that a given value of an option can bear on
Bearing(f, v, b) ==
  IF f = "verbose" THEN DOMAIN b
  ELSE IF f = "threshold" THEN DOMAIN b \ {PngName}
  ELSE IF f = "brotli"
    THEN IF v.exclude.given THEN DOMAIN b \cap (v.exclude.rel \cup v.exclude.abs)
         ELSE DOMAIN b \ {PngName}
  ELSE IF f = "exclude" THEN DOMAIN b \cap (v.rel \cup v.abs)
  ELSE IF f = "extensions" THEN {n \in DOMAIN b : n.ext \in v}
  ELSE IF f = "svgo" THEN {n \in DOMAIN b : svgExt(n)}
  ELSE IF f = "minifyHtml" THEN DOMAIN b \cap {HtmlName}
  ELSE DOMAIN b \cap {PngName}

\* the options differ from the default in at most MaxOverrides fields, each
\* of them one that bears on a file of the bundle; the builds that emit the
\* second SVG file use the default options
Scenario(o, b) ==
  LET set == {f \in DOMAIN o : o[f] # DefaultOpts[f]}
  IN /\ Cardinality(set) <= MaxOverrides
     /\ \A f \in set : Bearing(f, o[f], b) # {}
     /\ Svg2Name \in DOMAIN b => set = {}

---------------------------------------------------------------------------
(* State *)

NoRatio == [after |-> 0, before |-> 0]

\* the value 1 - after / before, kept as the two byte counts
Ratio(after, before) == [after |-> after, before |-> before]

NewCycle ==
  [error   |-> FALSE,     \* buildEnd was given an error
   crawled |-> FALSE]     \* closeBundle ran (crawl and dispatch)

NewRun ==
  [emitted    |-> FALSE,     \* the build has written its bundle
   settled    |-> "none",    \* the closeBundle promise
   compressed |-> <<>>,      \* closeBundle's Map: name -> ratio
   printed    |-> FALSE,     \* the verbose report was logged
   lines      |-> {}]        \* the names the report lists

\* how many times each lazily created codec instance has been constructed;
\* libSvgOptimizer is the module-level svgOptimizer of lib/optimizeSvg.ts
NoCodecs == [webpGenerator |-> 0, pngOptimizer |-> 0, svgOptimizer |-> 0,
             libSvgOptimizer |-> 0]

\* no call of prePlugin.transform, or of lib/optimizeSvg, in flight
IdleCall == [pc |-> "idle", path |-> NoPath, input |-> NoContent,
             failed |-> FALSE, result |-> "none", data |-> NoContent]

Init ==
  /\ opts \in OptionValues
  /\ bundle \in Bundles
  /\ Scenario(opts, bundle)
  /\ fs = [p \in Paths |-> NoFile]
  /\ clock = 1
  /\ mtimeCache = <<>>
  /\ hook = "undefined"
  /\ phase = "idle"
  /\ cycles = <<>>
  /\ run = NewRun
  /\ tasks = <<>>
  /\ codecs = NoCodecs
  /\ inl = IdleCall
  /\ lib = IdleCall

\* mtimeCache.get(filePath) || 0
CacheGet(p) == IF p \in DOMAIN mtimeCache THEN mtimeCache[p] ELSE 0

\* mtimeCache.set(filePath, Date.now())
CacheSet(p, now) == [q \in DOMAIN mtimeCache \cup {p} |->
                       IF q = p THEN now ELSE mtimeCache[q]]

\* x ??= new X(): one more construction only when none exists yet
Lazy_Always(cs, which) == [cs EXCEPT ![which] = @ + 1]
Lazy(cs, which) == IF cs[which] = 0 THEN [cs EXCEPT ![which] = 1] ELSE cs

Terminal == {"skipped", "written", "failed"}

\* await Promise.all(...) and what follows it in closeBundle: the promise
\* rejects with the first task that fails; when every task has returned,
\* the report is logged if verbose and the promise resolves
Settle(r, ts) ==
  IF r.settled # "pending" THEN r
  ELSE IF \E n \in DOMAIN ts : ts[n].pc = "failed"
    THEN [r EXCEPT !.settled = "rejected"]
  ELSE IF \A n \in DOMAIN ts : ts[n].pc \in Terminal
    THEN [r EXCEPT !.settled = "resolved",
                   !.printed = opts.verbose,
                   !.lines = IF opts.verbose THEN DOMAIN r.compressed ELSE {}]
  ELSE r

\* the host goes on once the closeBundle promise has settled
PhaseAfter(r) ==
  IF phase = "running" /\ r.settled # "pending" THEN "idle" ELSE phase

---------------------------------------------------------------------------
(* The host's build cycle: buildStart, the build's output, buildEnd *)

\* the wall clock as the next Date.now() or file timestamp may see it: time
\* passes unobserved between two readings of the clock
Later == {now \in {clock, clock + 1} : now <= MaxClock}

\* what buildStart leaves in this.closeBundle
HookAfterBuildStart == "closeBundle"

\* what buildEnd(error) leaves in this.closeBundle
HookAfterBuildEnd_Ignore(error) == hook
HookAfterBuildEnd(error) == IF error THEN "undefined" ELSE hook

\* every per-file task of the last closeBundle call has returned
Quiet == \A n \in DOMAIN tasks : tasks[n].pc \in Terminal

\* the host starts a build once the tasks of the previous pass have returned
buildStart ==
  /\ phase = "idle"
  /\ Quiet
  /\ lib.pc # "read" /\ lib.pc # "optimize"
  /\ Len(cycles) < MaxCycles
  /\ hook' = HookAfterBuildStart
  /\ phase' = "building"
  /\ cycles' = Append(cycles, NewCycle)
  /\ run' = NewRun
  /\ tasks' = <<>>
  /\ lib' = IdleCall
  /\ UNCHANGED <<opts, bundle, fs, clock, mtimeCache, codecs, inl>>

\* the host writes the bundle into outRoot
writeBundle(now) ==
  /\ phase = "building"
  /\ ~run.emitted
  /\ inl.pc # "optimize"
  /\ clock' = now
  /\ fs' = [p \in Paths |->
             IF Relative(outRoot, p) \in DOMAIN bundle
               THEN File(bundle[Relative(outRoot, p)], now, "host")
               ELSE fs[p]]
  /\ run' = [run EXCEPT !.emitted = TRUE]
  /\ UNCHANGED <<opts, bundle, mtimeCache, hook, phase, cycles, tasks, codecs,
                 inl, lib>>

\* the build ends once its transforms have returned
buildEnd(error) ==
  /\ phase = "building"
  /\ inl.pc # "optimize"
  /\ hook' = HookAfterBuildEnd(error)
  /\ phase' = "ended"
  /\ cycles' = [cycles EXCEPT ![Len(cycles)].error = error]
  /\ inl' = IdleCall
  /\ UNCHANGED <<opts, bundle, fs, clock, mtimeCache, run, tasks, codecs, lib>>


---------------------------------------------------------------------------
(* prePlugin.resolveBuiltUrl, installed when publicDir and opts.webp are set *)

\* crawl(publicDir, { only: ['*.png'] }): the PNG files of the public
\* directory, which the host copies into outRoot with the bundle
pngFiles == {n \in DOMAIN bundle : pngExt(n)}

\* resolveBuiltUrl('/' + name): the URL the host is told to use for it
resolveBuiltUrl(name) ==
  IF opts.webp /\ name \in pngFiles THEN ReplacePngExt(name) ELSE name

---------------------------------------------------------------------------
(* closeBundle: the crawl and the synchronous start of every per-file task *)

\* crawl(outRoot, ...): the files under outRoot
files == {n \in Names : fs[Join(outRoot, n)].exists}

\* the guard clauses before the first await
PassesFilters(name) ==
  /\ extensionRegex(name)
  /\ ~excludeRegex("rel", name)
  /\ ~excludeRegex("abs", name)

\* a per-file task up to its first await (fsp.stat); the last six fields
\* are history: whether optimizeSvg fell back to its input, and the tracker
\* entry and the files of the task as they were when it started
StartTask(name) ==
  [src         |-> name,
   name        |-> name,
   filePath    |-> Join(outRoot, name),
   pc          |-> IF PassesFilters(name) THEN "stat" ELSE "skipped",
   why         |-> IF PassesFilters(name) THEN "" ELSE "filtered",
   mtimeMs     |-> 0,
   oldSize     |-> 0,
   newFilePath |-> NoPath,
   compress    |-> "none",
   useBrotli   |-> FALSE,
   svg         |-> FALSE,
   input       |-> NoContent,
   content     |-> NoContent,
   fellBack    |-> FALSE,
   cacheHad    |-> Join(outRoot, name) \in DOMAIN mtimeCache,
   cacheBefore |-> CacheGet(Join(outRoot, name)),
   srcBefore   |-> fs[Join(outRoot, name)],
   dstBefore   |-> fs[ReplacePngExt(Join(outRoot, name))]]

\* the host calls this.closeBundle, if the hook is set
closeBundle ==
  /\ phase = "ended"
  /\ IF hook = "undefined"
       THEN /\ run' = [run EXCEPT !.settled = "not called"]
            /\ phase' = "idle"
            /\ UNCHANGED <<tasks, cycles>>
       ELSE LET ts == [n \in files |-> StartTask(n)]
                r == Settle([run EXCEPT !.settled = "pending"], ts)
            IN /\ tasks' = ts
               /\ run' = r
               /\ cycles' = [cycles EXCEPT ![Len(cycles)].crawled = TRUE]
               /\ phase' = IF r.settled = "pending" THEN "running" ELSE "idle"
  /\ UNCHANGED <<opts, bundle, fs, clock, mtimeCache, hook, codecs, inl, lib>>

---------------------------------------------------------------------------
(* The per-file task, one action per await *)

\* the task rejects
Fail(t, at) == [t EXCEPT !.pc = "failed", !.why = at]

\* if (mtimeMs <= (mtimeCache.get(filePath) || 0)) return
Unchanged_Strict(mtimeMs, filePath) == mtimeMs < CacheGet(filePath)
Unchanged(mtimeMs, filePath) == mtimeMs <= CacheGet(filePath)

\* const useBrotli = oldSize >= threshold && !brotliExcludeRegex.test(name)
\*                   && !brotliExcludeRegex.test(filePath)
UseBrotli_Strict(oldSize, name) ==
  /\ oldSize > threshold
  /\ ~brotliExcludeRegex("rel", name)
  /\ ~brotliExcludeRegex("abs", name)
UseBrotli(oldSize, name) ==
  /\ oldSize >= threshold
  /\ ~brotliExcludeRegex("rel", name)
  /\ ~brotliExcludeRegex("abs", name)

\* the compress function the task selects for the file
SelectCompress(name, oldSize) ==
  IF pngExt(name)
    THEN IF opts.webp THEN "webp"
         ELSE IF opts.pngquant THEN "pngquant"
         ELSE "none"
    ELSE IF opts.minifyHtml /\ htmlExt(name) THEN "minify"
         ELSE IF UseBrotli(oldSize, name) THEN "brotli"
         ELSE "none"

\* the codec instances the selection creates
SelectCodecs(name) ==
  IF pngExt(name)
    THEN IF opts.webp THEN Lazy(codecs, "webpGenerator")
         ELSE IF opts.pngquant THEN Lazy(codecs, "pngOptimizer")
         ELSE codecs
    ELSE codecs

\* whether the task reads the file: the SVG branch, else a compress function
ReadsSvg_Never(name) == FALSE
ReadsSvg(name) == opts.svgo /\ svgExt(name)

\* what compress(content) resolves to
Compress_NoRecheck(t, content) ==
  IF t.compress = "webp" THEN WebpOut(content)
  ELSE IF t.compress = "pngquant" THEN PngquantOut(content)
  ELSE IF t.compress = "minify"
    THEN LET html == BufferFrom(MinifyOut(toStringUtf8(content)))
         IN IF t.useBrotli THEN BrotliOut(html) ELSE html
  ELSE BrotliOut(content)
Compress(t, content) ==
  IF t.compress = "webp" THEN WebpOut(content)
  ELSE IF t.compress = "pngquant" THEN PngquantOut(content)
  ELSE IF t.compress = "minify"
    THEN LET html == BufferFrom(MinifyOut(toStringUtf8(content)))
         IN IF t.useBrotli /\ html.size >= threshold THEN BrotliOut(html) ELSE html
  ELSE BrotliOut(content)

\* what optimizeSvg(content, filePath) of plugin.ts resolves to: the
\* optimized data, or on a codec error the content it was given
optimizeSvg(content, ok) == IF ok THEN SvgoOut(content) ELSE content

\* the task's update of the tracker once content is defined
RecordProcessed(t, now) == CacheSet(t.filePath, now)

\* the tracker once the codec has settled: the task reaches mtimeCache.set
\* only when the await returned, that is with content defined
TrackerAfterCodec_Eager(t, ok, now) == RecordProcessed(t, now)
TrackerAfterCodec(t, ok, now) ==
  IF ~t.svg /\ ~ok THEN mtimeCache ELSE RecordProcessed(t, now)

\* the entry compressed.set adds after the write
Entry(t) == Ratio(t.content.size, t.oldSize)

\* a step of task id that leaves it as t2, then the Promise.all bookkeeping
Step(id, t2, r) ==
  LET ts == [tasks EXCEPT ![id] = t2]
      r2 == Settle(r, ts)
  IN /\ tasks' = ts
     /\ run' = r2
     /\ phase' = PhaseAfter(r2)
     /\ cycles' = cycles

\* await fsp.stat(filePath), then up to the next await
StatDone(id, ok) ==
  /\ id \in DOMAIN tasks
  /\ tasks[id].pc = "stat"
  /\ LET t == tasks[id]
         f == fs[t.filePath]
     IN IF ~ok \/ ~f.exists
          THEN /\ Step(id, Fail(t, "stat"), run)
               /\ codecs' = codecs
          ELSE IF Unchanged(f.mtime, t.filePath)
            THEN /\ Step(id, [t EXCEPT !.pc = "skipped", !.why = "unchanged",
                                       !.mtimeMs = f.mtime,
                                       !.oldSize = f.content.size], run)
                 /\ codecs' = codecs
            ELSE LET sel == SelectCompress(t.name, f.content.size)
                     t1 == [t EXCEPT
                              !.mtimeMs = f.mtime,
                              !.oldSize = f.content.size,
                              !.compress = sel,
                              !.useBrotli = ~pngExt(t.name) /\
                                            UseBrotli(f.content.size, t.name),
                              !.newFilePath = IF sel = "webp"
                                                THEN ReplacePngExt(t.filePath)
                                                ELSE NoPath,
                              !.svg = ReadsSvg(t.name)]
                 IN /\ codecs' = SelectCodecs(t.name)
                    /\ IF t1.svg \/ sel # "none"
                         THEN Step(id, [t1 EXCEPT !.pc = "read"], run)
                         ELSE Step(id, [t1 EXCEPT !.pc = "skipped",
                                                  !.why = "nothing to do"], run)
  /\ UNCHANGED <<opts, bundle, fs, clock, mtimeCache, hook, inl, lib>>

\* await fsp.readFile(filePath), then the call of optimizeSvg or compress
ReadDone(id, ok) ==
  /\ id \in DOMAIN tasks
  /\ tasks[id].pc = "read"
  /\ LET t == tasks[id]
         f == fs[t.filePath]
     IN IF ~ok \/ ~f.exists
          THEN /\ Step(id, Fail(t, "read"), run)
               /\ codecs' = codecs
          ELSE /\ Step(id, [t EXCEPT !.pc = "codec",
                                     !.input = IF t.svg THEN toStringUtf8(f.content)
                                               ELSE f.content], run)
               /\ codecs' = IF t.svg THEN Lazy(codecs, "svgOptimizer") ELSE codecs
  /\ UNCHANGED <<opts, bundle, fs, clock, mtimeCache, hook, inl, lib>>

\* await optimizeSvg(...) or await compress(content); with content defined,
\* mtimeCache.set and the call of unlink or writeFile
CodecDone(id, ok, now) ==
  /\ id \in DOMAIN tasks
  /\ tasks[id].pc = "codec"
  /\ LET t == tasks[id]
     IN IF ~t.svg /\ ~ok
          THEN /\ Step(id, Fail(t, "codec"), run)
               /\ mtimeCache' = TrackerAfterCodec(t, ok, now)
               /\ clock' = clock
          ELSE LET out == IF t.svg THEN BufferFrom(optimizeSvg(t.input, ok))
                          ELSE Compress(t, t.input)
                   t1 == [t EXCEPT !.content = out, !.fellBack = t.svg /\ ~ok]
               IN /\ clock' = now
                  /\ mtimeCache' = TrackerAfterCodec(t1, ok, now)
                  /\ Step(id, [t1 EXCEPT !.pc = IF t.newFilePath # NoPath
                                                  THEN "unlink" ELSE "write"],
                          run)
  /\ UNCHANGED <<opts, bundle, fs, hook, codecs, inl, lib>>

\* await fsp.unlink(filePath), then the rename and the call of writeFile
UnlinkDone(id, ok) ==
  /\ id \in DOMAIN tasks
  /\ tasks[id].pc = "unlink"
  /\ LET t == tasks[id]
     IN IF ~ok \/ ~fs[t.filePath].exists
          THEN /\ Step(id, Fail(t, "unlink"), run)
               /\ fs' = fs
          ELSE /\ fs' = [fs EXCEPT ![t.filePath] = NoFile]
               /\ Step(id, [t EXCEPT !.pc = "write",
                                     !.filePath = t.newFilePath,
                                     !.name = Relative(outRoot, t.newFilePath)],
                       run)
  /\ UNCHANGED <<opts, bundle, clock, mtimeCache, hook, codecs, inl, lib>>

\* what a failed writeFile leaves at the path: nothing new, or a truncated file
Truncated(c) == [c EXCEPT !.size = 0, !.enc = Append(@, "truncated")]

\* await fsp.writeFile(filePath, content), then compressed.set
WriteDone(id, how, now) ==
  /\ id \in DOMAIN tasks
  /\ tasks[id].pc = "write"
  /\ LET t == tasks[id]
     IN IF how = "ok"
          THEN /\ clock' = now
               /\ fs' = [fs EXCEPT ![t.filePath] = File(t.content, now, "plugin")]
               /\ Step(id, [t EXCEPT !.pc = "written"],
                       [run EXCEPT !.compressed =
                          [k \in DOMAIN @ \cup {t.name} |->
                             IF k = t.name THEN Entry(t) ELSE @[k]]])
          ELSE /\ clock' = IF how = "truncated" THEN now ELSE clock
               /\ fs' = IF how = "truncated"
                          THEN [fs EXCEPT ![t.filePath] =
                                  File(Truncated(t.content), now, "failed write")]
                          ELSE fs
               /\ Step(id, Fail(t, "write"), run)
  /\ UNCHANGED <<opts, bundle, mtimeCache, hook, codecs, inl, lib>>

---------------------------------------------------------------------------
(* prePlugin.transform: the inline SVG hook, installed when opts.svgo !== false *)

\* module ids: a path's extension and its query
Ids == [ext : {"svg", "js"}, query : {"", "raw"}]

\* svgExt.test(id): the id ends in .svg
SvgId(id) == id.query = "" /\ id.ext = "svg"

\* /(\?|&)raw(?:&|$)/.test(id)
isRaw(id) == id.query = "raw"

\* module code, by what transform looks at: whether it is a default export of
\* a string literal, whether the string is an SVG data URI, and whether
\* JSON.parse and decodeURIComponent accept it
Codes == [exported : BOOLEAN, dataUri : BOOLEAN, decodes : BOOLEAN]

InlineSvg == Content("inline.svg", 100, TRUE)

\* transform(code, id) up to its await of optimizeSvg, or to its return;
\* the host transforms its modules before it writes the bundle, and the
\* builds that import an SVG are those that emit one
transform(code, id) ==
  /\ opts.svgo
  /\ SvgName \in DOMAIN bundle
  /\ phase = "building"
  /\ ~run.emitted
  /\ inl.pc = "idle"
  /\ IF SvgId(id) /\ code.exported /\ (isRaw(id) \/ code.dataUri) /\ code.decodes
       THEN /\ inl' = [IdleCall EXCEPT !.pc = "optimize", !.input = InlineSvg]
            /\ codecs' = Lazy(codecs, "svgOptimizer")
       ELSE /\ inl' = [IdleCall EXCEPT !.pc = "done", !.result = "undefined"]
            /\ codecs' = codecs
  /\ UNCHANGED <<opts, bundle, fs, clock, mtimeCache, hook, phase, cycles, run,
                 tasks, lib>>

\* await optimizeSvg(content, id), then the rewritten code is returned
TransformDone(ok) ==
  /\ inl.pc = "optimize"
  /\ inl' = [inl EXCEPT !.pc = "done", !.failed = ~ok, !.result = "code",
                        !.data = optimizeSvg(inl.input, ok)]
  /\ UNCHANGED <<opts, bundle, fs, clock, mtimeCache, hook, phase, cycles, run,
                 tasks, codecs, lib>>

---------------------------------------------------------------------------
(* lib/optimizeSvg.ts: optimizeSvg(filePath, svgOpts) *)

\* what the call settles with once svgOptimizer.optimize has settled
LibOutcome(ok) == IF ok THEN "returned" ELSE "raised"

\* what the call returns when it returns
LibData(content, ok) == IF ok THEN SvgoOut(content) ELSE NoContent

\* the call, up to its await of fsp.readFile(filePath, 'utf8'), made by a
\* program that uses the module between two builds
LibOptimizeSvg(p) ==
  /\ phase = "idle"
  /\ Quiet
  /\ lib.pc = "idle"
  /\ svgExt(p)
  /\ fs[p].exists
  /\ lib' = [IdleCall EXCEPT !.pc = "read", !.path = p]
  /\ UNCHANGED <<opts, bundle, fs, clock, mtimeCache, hook, phase, cycles, run,
                 tasks, codecs, inl>>

\* await fsp.readFile, then svgOptimizer ??= new SVGO and the call of optimize
LibReadDone(ok) ==
  /\ lib.pc = "read"
  /\ IF ~ok \/ ~fs[lib.path].exists
       THEN /\ lib' = [lib EXCEPT !.pc = "done", !.result = "raised"]
            /\ codecs' = codecs
       ELSE /\ lib' = [lib EXCEPT !.pc = "optimize",
                                  !.input = toStringUtf8(fs[lib.path].content)]
            /\ codecs' = Lazy(codecs, "libSvgOptimizer")
  /\ UNCHANGED <<opts, bundle, fs, clock, mtimeCache, hook, phase, cycles, run,
                 tasks, inl>>

\* await svgOptimizer.optimize(content, ...), then return svg.data
LibOptimizeDone(ok) ==
  /\ lib.pc = "optimize"
  /\ lib' = [lib EXCEPT !.pc = "done", !.failed = ~ok,
                        !.result = LibOutcome(ok),
                        !.data = LibData(lib.input, ok)]
  /\ UNCHANGED <<opts, bundle, fs, clock, mtimeCache, hook, phase, cycles, run,
                 tasks, codecs, inl>>

---------------------------------------------------------------------------
TaskIds == Names

Next ==
  \/ buildStart
  \/ \E now \in Later : writeBundle(now)
  \/ \E error \in BOOLEAN : buildEnd(error)
  \/ closeBundle
  \/ \E id \in TaskIds, ok \in BOOLEAN : StatDone(id, ok)
  \/ \E id \in TaskIds, ok \in BOOLEAN : ReadDone(id, ok)
  \/ \E id \in TaskIds, ok \in BOOLEAN, now \in Later : CodecDone(id, ok, now)
  \/ \E id \in TaskIds, ok \in BOOLEAN : UnlinkDone(id, ok)
  \/ \E id \in TaskIds, how \in {"ok", "error", "truncated"}, now \in Later :
       WriteDone(id, how, now)
  \/ \E code \in Codes, id \in Ids : transform(code, id)
  \/ \E ok \in BOOLEAN : TransformDone(ok)

Spec == Init /\ [][Next]_vars

\* builds that emit one SVG file, and a program that calls lib/optimizeSvg
InitLib ==
  /\ Init
  /\ DOMAIN bundle = {SvgName}
  /\ opts \in {DefaultOpts, [DefaultOpts EXCEPT !.svgo = FALSE]}

NextLib ==
  \/ buildStart
  \/ \E now \in Later : writeBundle(now)
  \/ \E error \in BOOLEAN : buildEnd(error)
  \/ closeBundle
  \/ \E id \in TaskIds, ok \in BOOLEAN : StatDone(id, ok)
  \/ \E id \in TaskIds, ok \in BOOLEAN : ReadDone(id, ok)
  \/ \E id \in TaskIds, ok \in BOOLEAN, now \in Later : CodecDone(id, ok, now)
  \/ \E id \in TaskIds, how \in {"ok", "error", "truncated"}, now \in Later :
       WriteDone(id, how, now)
  \/ \E p \in Paths : LibOptimizeSvg(p)
  \/ \E ok \in BOOLEAN : LibReadDone(ok)
  \/ \E ok \in BOOLEAN : LibOptimizeDone(ok)

SpecLib == InitLib /\ [][NextLib]_vars

---------------------------------------------------------------------------
(* Properties *)

SrcPath(t) == Join(outRoot, t.src)

\* the task has passed the tracker check and chosen its pipeline
Selected(t) ==
  \/ t.pc \in {"read", "codec", "unlink", "write", "written"}
  \/ t.pc = "skipped" /\ t.why = "nothing to do"
  \/ t.pc = "failed" /\ t.why # "stat"

\* the name a task's report entry is keyed by
KeyOf(t) ==
  IF t.newFilePath # NoPath THEN Relative(outRoot, t.newFilePath) ELSE t.src

\* C1 (as claimed): a pass over files that nothing but the previous pass has
\* written performs no file write: a task whose file was last written by the
\* plugin never gets as far as deleting or writing
C1_SecondRunWritesNothing ==
  \A n \in DOMAIN tasks :
    tasks[n].srcBefore.by = "plugin" =>
      tasks[n].pc \notin {"unlink", "write", "written"}

\* C2 (as claimed): when exactly one of several eligible per-file tasks has
\* failed, the closeBundle promise is not rejected, and once every task has
\* returned it has resolved with an entry for each file that was written
C2_Isolation ==
  LET eligible == {n \in DOMAIN tasks : tasks[n].why # "filtered"}
      failed == {n \in DOMAIN tasks : tasks[n].pc = "failed"}
  IN (Cardinality(eligible) >= 2 /\ Cardinality(failed) = 1) =>
       /\ run.settled # "rejected"
       /\ Quiet =>
            /\ run.settled = "resolved"
            /\ \A n \in eligible \ failed :
                 tasks[n].pc = "written" => KeyOf(tasks[n]) \in DOMAIN run.compressed

\* C3 (as claimed): a converting task has deleted the original .png only if
\* it has written the .webp file
C3_DeleteAfterWrite ==
  \A n \in DOMAIN tasks :
    (tasks[n].newFilePath # NoPath /\ ~fs[SrcPath(tasks[n])].exists) =>
      tasks[n].pc = "written"

\* C4 (as claimed): when a converting task has failed, the original .png is
\* as it was when the task started and so is the .webp path
C4_FailureAtomicity ==
  \A n \in DOMAIN tasks :
    (tasks[n].newFilePath # NoPath /\ tasks[n].pc = "failed") =>
      /\ fs[SrcPath(tasks[n])] = tasks[n].srcBefore
      /\ fs[tasks[n].newFilePath] = tasks[n].dstBefore

\* C5 (as claimed): a file whose relative or absolute path matches the
\* exclude patterns is never processed, written or deleted by the pass and
\* gets no tracker entry and no report entry
C5_SkipSafety ==
  \A n \in Names :
    (excludeRegex("rel", n) \/ excludeRegex("abs", n)) =>
      /\ fs[Join(outRoot, n)].by \notin {"plugin", "failed write"}
      /\ Join(outRoot, n) \notin DOMAIN mtimeCache
      /\ n \notin DOMAIN run.compressed
      /\ n \in DOMAIN tasks =>
           /\ tasks[n].pc = "skipped" /\ tasks[n].why = "filtered"
           /\ fs[Join(outRoot, n)].exists

\* C6: in every build cycle whose closeBundle stage has been reached, the
\* pass has run (crawled) if and only if buildEnd reported no error, whatever
\* the earlier cycles did; a failed cycle has crawled nothing and started no
\* per-file task
C6_BuildFailureGate ==
  \A c \in DOMAIN cycles :
    /\ cycles[c].error => ~cycles[c].crawled
    /\ (c = Len(cycles) /\ cycles[c].error) => DOMAIN tasks = {}
    /\ (c < Len(cycles) \/ phase \in {"running", "idle"}) =>
         (cycles[c].crawled <=> ~cycles[c].error)

\* a failed cycle that did not run, then a successful one that wrote a file
C6_Witness ==
  /\ Len(cycles) = 2
  /\ cycles[1].error /\ ~cycles[1].crawled
  /\ ~cycles[2].error /\ cycles[2].crawled
  /\ \E n \in DOMAIN tasks : tasks[n].pc = "written"

\* an allowed file that is no PNG, SVG or HTML, with entropy compression
\* enabled and the file not excluded from it
PlainFile(n) ==
  /\ n.ext \notin {"png", "svg", "html"}
  /\ opts.brotli.kind # "false"
  /\ ~(opts.brotli.exclude.given /\ n \in opts.brotli.exclude.rel \cup opts.brotli.exclude.abs)

\* C7: such a file of threshold - 1 bytes gets no compress function and is
\* left unwritten, one of exactly threshold bytes gets Brotli; without a
\* threshold option the two sizes are 1500 and 1501
C7_ThresholdBoundary ==
  \A n \in DOMAIN tasks :
    (Selected(tasks[n]) /\ PlainFile(n)) =>
      LET t == tasks[n]
          limit == IF opts.threshold.given THEN opts.threshold.value ELSE 1501
      IN /\ t.oldSize = limit - 1 =>
              /\ t.compress = "none"
              /\ t.pc = "skipped"
              /\ (\A m \in DOMAIN tasks : tasks[m].newFilePath # SrcPath(t)) =>
                   fs[SrcPath(t)] = t.srcBefore
         /\ t.oldSize = limit => t.compress = "brotli" /\ t.pc # "skipped"

\* a file of exactly 1501 bytes, no threshold option, Brotli-compressed and
\* written
C7_Witness ==
  \E n \in DOMAIN tasks :
    /\ PlainFile(n)
    /\ ~opts.threshold.given
    /\ tasks[n].oldSize = 1501
    /\ tasks[n].pc = "written"
    /\ tasks[n].content.enc = <<"br">>

\* C8 (as claimed): every file whose new content a task of this run has
\* written has a report entry, under the .webp name and not the .png name
\* when it was converted, with the value 1 - after / before where after is
\* the size written and before the size stat returned for that file; a file
\* that was skipped, has failed or is not written yet has no entry under its
\* name; nothing else is in the report, and the logged report lists the same
\* names
C8_ReportEntries ==
  LET written == {n \in DOMAIN tasks : tasks[n].pc = "written"}
  IN /\ \A n \in written :
          /\ KeyOf(tasks[n]) \in DOMAIN run.compressed
          /\ run.compressed[KeyOf(tasks[n])] =
               Ratio(tasks[n].content.size, tasks[n].oldSize)
          /\ KeyOf(tasks[n]) # n => n \notin DOMAIN run.compressed
     /\ \A n \in DOMAIN tasks \ written : n \notin DOMAIN run.compressed
     /\ DOMAIN run.compressed \subseteq {KeyOf(tasks[n]) : n \in written}
     /\ run.printed => run.lines = DOMAIN run.compressed

\* C9 (as claimed): whenever the SVG codec fails, the optimizer returns the
\* content it was given and raises nothing, in the per-file task, in the
\* inline transform and in lib/optimizeSvg
C9_VectorFallback ==
  /\ \A n \in DOMAIN tasks :
       tasks[n].fellBack =>
         tasks[n].pc # "failed" \/ tasks[n].why # "codec"
  /\ inl.failed => inl.result = "code" /\ inl.data = inl.input
  /\ lib.failed => lib.result = "returned" /\ lib.data = lib.input

\* C10 (as claimed): the tracker entry of a file is as it was when the task
\* started until the task has written the file's new content
C10_WatermarkOnSuccess ==
  \A n \in DOMAIN tasks :
    tasks[n].pc # "written" =>
      /\ (SrcPath(tasks[n]) \in DOMAIN mtimeCache) = tasks[n].cacheHad
      /\ CacheGet(SrcPath(tasks[n])) = tasks[n].cacheBefore

\* C11 (as claimed): the closeBundle promise has settled, resolved or
\* rejected, and the report has been logged, only when every per-file task of
\* the run has returned: no task is still at stat, read, codec, unlink or
\* write after that
C11_JoinBeforeAggregate ==
  /\ run.settled \in {"resolved", "rejected"} => Quiet
  /\ run.printed => Quiet

\* no other task of the run converts a file into the path of task t's file
OnlyWriter(t) ==
  \A m \in DOMAIN tasks : tasks[m].newFilePath # SrcPath(t)

\* C12: when the pngquant, HTML-minify or Brotli step of a task that keeps
\* the file's name has failed, the tracker entry of the file is as it was
\* when the task started and the task has left the file and the report alone:
\* unless another file was converted into its path, the file is as it was
\* and the report has no entry under its name
C12_CodecFailureUntouched ==
  \A n \in DOMAIN tasks :
    LET t == tasks[n]
    IN (t.pc = "failed" /\ t.why = "codec" /\ t.newFilePath = NoPath) =>
         /\ t.compress \in {"pngquant", "minify", "brotli"}
         /\ (SrcPath(t) \in DOMAIN mtimeCache) = t.cacheHad
         /\ CacheGet(SrcPath(t)) = t.cacheBefore
         /\ t.content = NoContent
         /\ OnlyWriter(t) =>
              /\ fs[SrcPath(t)] = t.srcBefore
              /\ n \notin DOMAIN run.compressed

\* the Brotli step of b.js has failed in the second pass, after the first
\* pass had compressed the file and the build had emitted it again
C12_Witness ==
  /\ Len(cycles) = 2
  /\ JsName \in DOMAIN tasks
  /\ tasks[JsName].pc = "failed"
  /\ tasks[JsName].why = "codec"
  /\ tasks[JsName].compress = "brotli"
  /\ tasks[JsName].cacheHad
  /\ fs[Join(outRoot, JsName)].by = "host"

\* the pipeline families among the codec tags of a content
IsFamily(e) == e \in {"webp", "pngquant", "svgo", "minify", "br"}

\* the pipelines task t has applied to the content it read, in order
Applied(t) ==
  SelectSeq(SubSeq(t.content.enc, Len(t.input.enc) + 1, Len(t.content.enc)),
            IsFamily)

\* C13: a task whose content is defined has applied one pipeline family to
\* what it read, or HTML-minify followed by Brotli, or none when the SVG
\* optimizer fell back; each family goes with its file type; an SVG with the
\* SVG optimizer enabled gets no Brotli even when Brotli was selected for its
\* size, and a PNG with the webp option gets webp and no pngquant
C13_PipelineExclusion ==
  \A n \in DOMAIN tasks :
    LET t == tasks[n]
    IN t.pc \in {"unlink", "write", "written"} =>
         /\ Applied(t) \in {<<"webp">>, <<"pngquant">>, <<"svgo">>, <<>>,
                            <<"minify">>, <<"minify", "br">>, <<"br">>}
         /\ Applied(t) = <<>> => t.fellBack
         /\ (svgExt(t.src) /\ opts.svgo) => Applied(t) \in {<<"svgo">>, <<>>}
         /\ (pngExt(t.src) /\ opts.webp) => Applied(t) = <<"webp">>
         /\ pngExt(t.src) <=> Applied(t) \in {<<"webp">>, <<"pngquant">>}
         /\ Applied(t) \in {<<"minify">>, <<"minify", "br">>} =>
              htmlExt(t.src) /\ opts.minifyHtml
         /\ Applied(t) = <<"svgo">> => svgExt(t.src)

\* an SVG of 1501 bytes for which Brotli was selected, written with the SVG
\* optimizer's output only
C13_Witness ==
  /\ SvgName \in DOMAIN tasks
  /\ tasks[SvgName].pc = "written"
  /\ tasks[SvgName].compress = "brotli"
  /\ tasks[SvgName].oldSize >= threshold
  /\ Applied(tasks[SvgName]) = <<"svgo">>

\* the task has been through the tracker check
Checked(t) == t.pc # "stat" /\ t.why \notin {"filtered", "stat"}

\* C14: a task is past the tracker check exactly when the mtime stat
\* returned is greater than the tracker entry of its absolute path, no entry
\* counting as 0; otherwise, and so with an mtime equal to the entry, it has
\* returned without reading or producing any content, and the file is as it
\* was unless another file was converted into its path
C14_TrackerDecision ==
  \A n \in DOMAIN tasks :
    LET t == tasks[n]
    IN Checked(t) =>
         /\ Selected(t) <=> t.mtimeMs > t.cacheBefore
         /\ ~t.cacheHad => t.cacheBefore = 0 /\ Selected(t)
         /\ t.mtimeMs <= t.cacheBefore =>
              /\ t.pc = "skipped" /\ t.why = "unchanged"
              /\ t.input = NoContent /\ t.content = NoContent
              /\ OnlyWriter(t) => fs[SrcPath(t)] = t.srcBefore

\* a file whose mtime equals its tracker entry, skipped in the second pass
C14_Witness ==
  \E n \in DOMAIN tasks :
    /\ tasks[n].pc = "skipped" /\ tasks[n].why = "unchanged"
    /\ tasks[n].cacheHad
    /\ tasks[n].mtimeMs = tasks[n].cacheBefore
    /\ tasks[n].mtimeMs > 0

\* the task has minified an HTML file
Minified(t) ==
  /\ htmlExt(t.src)
  /\ t.compress = "minify"
  /\ t.pc \in {"write", "written"}

\* the size of the minified output of what the task read
MinifiedSize(t) == BufferFrom(MinifyOut(toStringUtf8(t.input))).size

\* Brotli is enabled and its exclude set matches neither form of the name
BrotliAllowed(n) ==
  /\ opts.brotli.kind # "false"
  /\ ~brotliExcludeRegex("rel", n)
  /\ ~brotliExcludeRegex("abs", n)

\* C15 (as claimed): the minified output is Brotli-compressed exactly when
\* Brotli is enabled, the file is not in the Brotli exclude set and the
\* minified size is at least the threshold
C15_ChainAsClaimed ==
  \A n \in DOMAIN tasks :
    Minified(tasks[n]) =>
      (Applied(tasks[n]) = <<"minify", "br">> <=>
         BrotliAllowed(n) /\ MinifiedSize(tasks[n]) >= threshold)

\* C15 (amended): the minified output is Brotli-compressed exactly when
\* Brotli is enabled, the file is not in the Brotli exclude set, the size
\* stat returned is at least the threshold and the minified size is at least
\* the threshold too; otherwise the minified output is what is written
C15_MarkupChaining ==
  \A n \in DOMAIN tasks :
    LET t == tasks[n]
        chain == /\ BrotliAllowed(n)
                 /\ t.oldSize >= threshold
                 /\ MinifiedSize(t) >= threshold
    IN Minified(t) =>
         /\ Applied(t) = IF chain THEN <<"minify", "br">> ELSE <<"minify">>
         /\ t.content.size = IF chain THEN BrotliOut(MinifyOut(toStringUtf8(t.input))).size
                             ELSE MinifiedSize(t)
         /\ t.pc = "written" /\ OnlyWriter(t) => fs[t.filePath].content = t.content

\* an HTML file of 1501 bytes minified to 1500 with threshold 1500, then
\* Brotli-compressed and written
C15_Witness ==
  /\ HtmlName \in DOMAIN tasks
  /\ Minified(tasks[HtmlName])
  /\ tasks[HtmlName].pc = "written"
  /\ threshold = 1500
  /\ MinifiedSize(tasks[HtmlName]) = 1500
  /\ Applied(tasks[HtmlName]) = <<"minify", "br">>

\* content that has been through Brotli
HasBrotli(c) == \E i \in 1..Len(c.enc) : c.enc[i] = "br"

\* C16: with brotli: false no task selects Brotli, none produces content
\* that went through it, directly or after HTML-minify, and no file under
\* outRoot holds such content; with brotli omitted, true or an object
\* without an exclude list the Brotli exclude set matches no file name, in
\* either form, so every file of at least threshold bytes has useBrotli set
C16_BrotliSwitch ==
  /\ opts.brotli.kind = "false" =>
       /\ \A n \in DOMAIN tasks :
            /\ ~tasks[n].useBrotli
            /\ tasks[n].compress # "brotli"
            /\ ~HasBrotli(tasks[n].content)
       /\ \A p \in Paths : ~HasBrotli(fs[p].content)
  /\ (opts.brotli.kind \in {"undefined", "true"} \/
      (opts.brotli.kind = "object" /\ ~opts.brotli.exclude.given)) =>
       /\ \A n \in Names :
            ~brotliExcludeRegex("rel", n) /\ ~brotliExcludeRegex("abs", n)
       /\ \A n \in DOMAIN tasks :
            (Selected(tasks[n]) /\ ~pngExt(tasks[n].src)) =>
              (tasks[n].useBrotli <=> tasks[n].oldSize >= threshold)

\* with brotli: false, a script of at least threshold bytes for which the
\* task found nothing to do
C16_Witness ==
  /\ opts.brotli.kind = "false"
  /\ JsName \in DOMAIN tasks
  /\ tasks[JsName].oldSize >= threshold
  /\ tasks[JsName].pc = "skipped"
  /\ tasks[JsName].why = "nothing to do"

\* the path a task writes, or is going to write, its content to
Target(t) == IF t.newFilePath # NoPath THEN t.newFilePath ELSE SrcPath(t)

\* the task is at or past its write
Writes(t) == t.pc \in {"unlink", "write", "written"}

\* C17 (as claimed): no two tasks of a run write to the same path, and a
\* converting task writes to a path that no crawled entry refers to and that
\* did not exist when the run started
C17_SingleWriter ==
  /\ \A n, m \in DOMAIN tasks :
       (n # m /\ Writes(tasks[n]) /\ Writes(tasks[m])) =>
         Target(tasks[n]) # Target(tasks[m])
  /\ \A n \in DOMAIN tasks :
       (Writes(tasks[n]) /\ tasks[n].newFilePath # NoPath) =>
         /\ Relative(outRoot, tasks[n].newFilePath) \notin DOMAIN tasks
         /\ ~tasks[n].dstBefore.exists

\* C18 (as claimed): once a closeBundle run over the emitted bundle has
\* resolved, every public PNG whose URL resolveBuiltUrl rewrites to .webp
\* has been converted by the run, and the .webp file the URL names exists
\* under outRoot
C18_UrlRewrite ==
  (run.emitted /\ run.settled = "resolved") =>
    \A n \in Names :
      resolveBuiltUrl(n) # n =>
        /\ fs[Join(outRoot, resolveBuiltUrl(n))].exists
        /\ n \in DOMAIN tasks
        /\ tasks[n].pc = "written"
        /\ KeyOf(tasks[n]) = resolveBuiltUrl(n)

\* C19: each codec instance of the plugin, and the optimizer of
\* lib/optimizeSvg, has been constructed at most once, whatever tasks and
\* transforms have needed it and however they interleaved: an instance is
\* never replaced by a second one
C19_LazyCodecs ==
  \A c \in DOMAIN codecs : codecs[c] <= 1

\* two SVG tasks of one pass have both called the optimizer, and it has been
\* constructed once
C19_Witness ==
  /\ codecs.svgOptimizer = 1
  /\ {SvgName, Svg2Name} \subseteq DOMAIN tasks
  /\ \A n \in {SvgName, Svg2Name} :
       tasks[n].svg /\ tasks[n].pc \in {"codec", "write", "written"}

====
